---- MODULE Spec2Model ----
(***************************************************************************)
(* Model of bioconda_utils/githubhandler.py (GitHubHandler,                *)
(* GitHubAppHandler) and bioconda_utils/githandler.py (GitHandlerBase).    *)
(*                                                                         *)
(* SpecApp : the GitHub App credential and session caches, driven by       *)
(*           asyncio tasks that suspend at the token issuance POST.        *)
(* SpecGit : one git checkout with its fork remote plus one GitHubHandler, *)
(*           with their dry_run flags.                                     *)
(***************************************************************************)
EXTENDS Integers, Sequences, FiniteSets, TLC

\* ------------------------------------------------------------------ bounds
\* wall clock (seconds since the epoch) when the GitHubAppHandler is built
T0 == 100000
\* number of calls into the GitHubAppHandler explored
MaxCalls == 2

\* number of calls into the GitHandler and the GitHubHandler explored
MaxBotCalls == 2

\* the instants at which something happens, as seconds after T0: they lie
\* on both sides of the renewal boundaries of the first JWT (T0 + 600) and
\* of a one-hour installation token issued at T0
Instants == {T0 + d : d \in {0, 540, 541, 3540, 3541}}
\* seconds of validity the issuance endpoint grants (GitHub grants one hour)
GitHubLifetime == 60 * 60
TokenLifetimes == {59, GitHubLifetime}
\* local time minus UTC of the process, in seconds
TZOffsets == {-3600, 0}

Tasks == {1, 2}
Installations == {"5", "7"}
Repos == {"widgets", "gadgets"}
Owner == "acme"
\* the webhook events seen, as <<installation/id, repository/name>>
Events == {<<"5", "widgets">>, <<"5", "gadgets">>}

\* the recipe files of the checkout and what they may contain
Files == {"meta.yaml", "build.sh"}
Contents == {"v1", "v2"}
Branches == {"master", "bump"}
\* issue and pull request numbers handed to the GitHubHandler
IssueNumbers == {7}

\* ------------------------------------------------------- program constants
\* GitHubAppHandler.JWT_RENEW_PERIOD
JWT_RENEW_PERIOD == 600
\* the literal 60 of get_app_jwt and get_installation_token
SafetyMargin == 60

VARIABLES
    clock,      \* time.time(), whole seconds
    tzOffset,   \* time zone of the process (what time.mktime assumes)
    jwt,        \* GitHubAppHandler._jwt: <<expires, token>>
    tokens,     \* GitHubAppHandler._tokens: installation -> <<expires, token>>
    handlers,   \* GitHubAppHandler._handlers: <<installation, repo>> -> object
    heap,       \* the AiohttpGitHubHandler objects built so far, by identity
    tasks,      \* the asyncio tasks suspended in (or free to call) the handler
    issued,     \* issuance endpoint: true expiry of every token it handed out
    netCalls,   \* POSTs sent to the issuance endpoint
    nCalls,     \* calls started so far
    jwtOut,     \* the most recent get_app_jwt call and the token it returned
    out         \* the most recent call that returned or raised

VARIABLES
    commits,    \* the commit objects: <<parent, tree>>, by identity
    heads,      \* repo.heads: local branch -> commit (0: no such branch)
    active,     \* repo.active_branch: the branch HEAD names
    index,      \* repo.index: the staged tree
    worktree,   \* the files of the working directory
    homeMaster, \* master on the home remote
    forkRefs,   \* the branches on the fork remote -> commit (0: none)
    gitDryRun,  \* GitHandlerBase.dry_run
    pushes,     \* pushes sent to the fork remote
    ghDryRun,   \* GitHubHandler.dry_run
    ghWrites,   \* POST and PATCH requests sent to the GitHub API
    ghNext,     \* GitHub: the number the next pull request or comment gets
    botCalls,   \* calls started so far
    botOut      \* the most recent call and what it returned or raised

VARIABLES
    prevActive, \* GitHandler.prev_active_branch
    closed      \* close() has run

VARIABLES
    permits,    \* lock_working_dir: the permits the semaphore has left
    workers     \* the callers that work on the checkout under the lock

VARIABLES
    env,        \* what the handlers find around them: working directories,
                \* the tree of the branch read, the remotes of the repository
    libOut      \* the most recent call of a helper and what it returned

appVars == <<clock, tzOffset, jwt, tokens, handlers, heap, tasks,
             issued, netCalls, nCalls, jwtOut, out>>

gitVars == <<commits, heads, active, index, worktree, homeMaster, forkRefs,
             gitDryRun, pushes>>

ghVars == <<ghDryRun, ghWrites, ghNext>>

botVars == <<commits, heads, active, index, worktree, homeMaster, forkRefs,
             gitDryRun, pushes, ghDryRun, ghWrites, ghNext, botCalls, botOut>>

libVars == <<env, libOut>>

\* what a call into the GitHubAppHandler leaves alone, and what a call into
\* the GitHandler or the GitHubHandler leaves alone
lockVars == <<permits, workers>>

notApp == <<botVars, libVars, prevActive, closed, lockVars>>
notBot == <<appVars, libVars, prevActive, closed, lockVars>>
\* ... and what a helper leaves alone
notLib == <<appVars, botVars, prevActive, closed, lockVars>>

vars == <<clock, tzOffset, jwt, tokens, handlers, heap, tasks,
          issued, netCalls, nCalls, jwtOut, out,
          commits, heads, active, index, worktree, homeMaster, forkRefs,
          gitDryRun, pushes, ghDryRun, ghWrites, ghNext, botCalls, botOut,
          env, libOut, prevActive, closed, permits, workers>>

\* ------------------------------------------------------------ credentials
\* the "" of an unset JWT, and a minted JWT by its payload
NoJwt == [iat |-> 0, exp |-> 0]
\* the '' of an unset installation token; issued tokens are 1, 2, ...
NoToken == 0
\* None
None == 0

JwtExpired_NoMargin(expires, now) == expires = 0 \/ expires < now

\* get_app_jwt: `not expires or expires < now + 60`
JwtExpired(expires, now) == expires = 0 \/ expires < now + SafetyMargin

MintJwt_ShortLived(now) ==
    LET expires == now + SafetyMargin
    IN  <<expires, [iat |-> now, exp |-> expires]>>

\* get_app_jwt: payload and jwt.encode
MintJwt(now) ==
    LET expires == now + JWT_RENEW_PERIOD
    IN  <<expires, [iat |-> now, exp |-> expires]>>

\* get_app_jwt: the stored pair afterwards and the token returned
GetAppJwt(stored, now) ==
    IF JwtExpired(stored[1], now)
    THEN [jwt |-> MintJwt(now), token |-> MintJwt(now)[2]]
    ELSE [jwt |-> stored, token |-> stored[2]]

\* a time string: the "%Y-%m-%dT%H:%M:%S" text as the UTC second it
\* names (NoDate when that text is missing) followed by a tail
NoDate == -1
TimeStr(date, tail) == [date |-> date, tail |-> tail]
\* what the endpoint may send as expires_at for a token expiring at `expiry`:
\* the ISO 8601 UTC form, the same without the "Z", and the empty string
ExpiresAtForms(expiry) ==
    {TimeStr(expiry, "Z"), TimeStr(expiry, ""), TimeStr(NoDate, "")}

\* time.mktime: broken-down time read as LOCAL time, to epoch seconds
MkTime(wall, tz) == wall - tz

\* parse_isotime
ParseIsotime(timestr, tz) ==
    IF timestr.date = NoDate /\ timestr.tail = ""
    THEN [exc |-> "IndexError", value |-> 0]
    ELSE IF timestr.tail # "Z"
    THEN [exc |-> "ValueError", value |-> 0]
    ELSE IF timestr.date = NoDate
    THEN [exc |-> "ValueError", value |-> 0]
    ELSE [exc |-> "", value |-> MkTime(timestr.date, tz)]

TokenExpired_AtMargin(expires, now) ==
    expires = 0 \/ expires <= now + SafetyMargin

\* get_installation_token: `not expires or expires < now + 60`
TokenExpired(expires, now) == expires = 0 \/ expires < now + SafetyMargin

\* dict.get(installation, (0, ''))
TokensGet(toks, i) == IF i \in DOMAIN toks THEN toks[i] ELSE <<0, NoToken>>

\* dict[key] = value
DictSet(d, k, v) == [x \in DOMAIN d \cup {k} |-> IF x = k THEN v ELSE d[x]]

StoreToken_TokenOnly(toks, i, expires, token) ==
    DictSet(toks, i, <<TokensGet(toks, i)[1], token>>)

\* self._tokens[installation] = (expires, token)
StoreToken(toks, i, expires, token) == DictSet(toks, i, <<expires, token>>)

HandlersGet_Miss(hs, key) == None

\* self._handlers.get(handler_key)
HandlersGet(hs, key) == IF key \in DOMAIN hs THEN hs[key] ELSE None

SetOauthToken_Dropped(objs, h, token) == objs

\* GitHubHandler.set_oauth_token
SetOauthToken(objs, h, token) == [objs EXCEPT ![h].oauth = token]

\* AiohttpGitHubHandler(token, to_user, to_repo, dry_run=False) followed by
\* create_api_object: the API object takes a copy of self.token
NewHandler(token, user, repo) ==
    [token |-> token, oauth |-> token, user |-> user, repo |-> repo,
     dry_run |-> FALSE]

\* what the issuance endpoint answered: the HTTP status and, with a 201,
\* the form of the expires_at of the body (does it hold a date, and its tail)
Answer(status, expires_at) ==
    [status |-> status, dated |-> expires_at.date # NoDate,
     tail |-> expires_at.tail]
NoAnswer == Answer(0, TimeStr(NoDate, ""))

\* a task: free, or suspended in the await of get_installation_token
IdleTask ==
    [pc |-> "idle", op |-> "", inst |-> "", repo |-> "", had |-> None,
     call |-> 0, got |-> NoAnswer]

NoOut ==
    [call |-> 0, task |-> 0, op |-> "", inst |-> "", repo |-> "",
     had |-> None, ret |-> 0, exc |-> "", fresh |-> FALSE, got |-> NoAnswer]

\* the record of a call that ends: what it returned or raised
Result(t, rec, ret, exc, fresh) ==
    [call |-> rec.call, task |-> t, op |-> rec.op, inst |-> rec.inst,
     repo |-> rec.repo, had |-> rec.had, ret |-> ret, exc |-> exc,
     fresh |-> fresh, got |-> rec.got]

\* ------------------------------------------------------------------- Init
AppStart(zones) ==
    /\ clock = T0
    /\ tzOffset \in zones
    /\ jwt = GetAppJwt(<<0, NoJwt>>, T0).jwt
    /\ tokens = <<>>
    /\ handlers = <<>>
    /\ heap = <<>>
    /\ tasks = [t \in Tasks |-> IdleTask]
    /\ issued = <<>>
    /\ netCalls = 0
    /\ nCalls = 0
    /\ jwtOut = [call |-> 0, token |-> GetAppJwt(<<0, NoJwt>>, T0).token]
    /\ out = NoOut

\* ---------------------------------------------------------------- actions
\* time passes
Tick ==
    /\ \E c \in Instants : c > clock /\ clock' = c
    /\ UNCHANGED <<tzOffset, jwt, tokens, handlers, heap, tasks, issued,
                   netCalls, nCalls, jwtOut, out>>
    /\ UNCHANGED notApp

\* a direct call of get_app_jwt
CallAppJwt ==
    /\ nCalls < MaxCalls
    /\ nCalls' = nCalls + 1
    /\ LET g == GetAppJwt(jwt, clock)
       IN  /\ jwt' = g.jwt
           /\ jwtOut' = [call |-> nCalls + 1, token |-> g.token]
    /\ UNCHANGED <<clock, tzOffset, tokens, handlers, heap, tasks,
                   issued, netCalls, out>>
    /\ UNCHANGED notApp

\* get_github_api after its await: refresh the handler found, or build one
FinishApi(t, rec, token, fresh) ==
    IF rec.had # None
    THEN /\ heap' = SetOauthToken(heap, rec.had, token)
         /\ handlers' = handlers
         /\ out' = Result(t, rec, rec.had, "", fresh)
    ELSE /\ heap' = Append(heap, NewHandler(token, Owner, rec.repo))
         /\ handlers' = DictSet(handlers, <<rec.inst, rec.repo>>, Len(heap) + 1)
         /\ out' = Result(t, rec, Len(heap) + 1, "", fresh)

\* what the caller of get_installation_token does with the token
Finish(t, rec, token, fresh) ==
    /\ tasks' = [tasks EXCEPT ![t] = IdleTask]
    /\ IF rec.op = "api"
       THEN FinishApi(t, rec, token, fresh)
       ELSE /\ out' = Result(t, rec, token, "", fresh)
            /\ UNCHANGED <<heap, handlers>>

\* the call ends by raising
Raise(t, rec, exc) ==
    /\ tasks' = [tasks EXCEPT ![t] = IdleTask]
    /\ out' = Result(t, rec, 0, exc, FALSE)
    /\ UNCHANGED <<heap, handlers>>

\* get_installation_token up to its await (or to its return on a cache hit)
StartFetch(t, rec) ==
    LET now == clock
        cached == TokensGet(tokens, rec.inst)
    IN  IF TokenExpired(cached[1], now)
        THEN LET g == GetAppJwt(jwt, clock)
             IN  /\ jwt' = g.jwt
                 /\ jwtOut' = [call |-> rec.call, token |-> g.token]
                 /\ netCalls' = netCalls + 1
                 /\ tasks' = [tasks EXCEPT ![t] = [rec EXCEPT !.pc = "await"]]
                 /\ UNCHANGED <<heap, handlers, out>>
        ELSE /\ Finish(t, rec, cached[2], FALSE)
             /\ UNCHANGED <<jwt, jwtOut, netCalls>>

\* the task that runs the next call: tasks are interchangeable
FreeTask(t) ==
    /\ tasks[t].pc = "idle"
    /\ \A u \in Tasks : tasks[u].pc = "idle" => t <= u

\* a task calls get_installation_token(i)
CallInstallationToken(t, i) ==
    /\ nCalls < MaxCalls
    /\ FreeTask(t)
    /\ nCalls' = nCalls + 1
    /\ StartFetch(t, [IdleTask EXCEPT !.op = "tok", !.inst = i,
                        !.call = nCalls + 1])
    /\ UNCHANGED <<clock, tzOffset, tokens, issued>>
    /\ UNCHANGED notApp

\* a task calls get_github_api(event)
CallGithubApi(t, i, r) ==
    /\ nCalls < MaxCalls
    /\ FreeTask(t)
    /\ nCalls' = nCalls + 1
    /\ StartFetch(t, [IdleTask EXCEPT !.op = "api", !.inst = i, !.repo = r,
                        !.call = nCalls + 1,
                        !.had = HandlersGet(handlers, <<i, r>>)])
    /\ UNCHANGED <<clock, tzOffset, tokens, issued>>
    /\ UNCHANGED notApp

RespondBadRequest_Evicts(t) ==
    /\ tasks[t].pc = "await"
    /\ Raise(t, [tasks[t] EXCEPT !.got = Answer(403, TimeStr(NoDate, ""))],
             "BadRequest")
    /\ tokens' = [i \in DOMAIN tokens \ {tasks[t].inst} |-> tokens[i]]
    /\ UNCHANGED <<clock, tzOffset, jwt, issued, netCalls, nCalls, jwtOut>>
    /\ UNCHANGED notApp

\* the issuance endpoint answers 4xx: gidgethub.BadRequest is re-raised
RespondBadRequest(t) ==
    /\ tasks[t].pc = "await"
    /\ Raise(t, [tasks[t] EXCEPT !.got = Answer(403, TimeStr(NoDate, ""))],
             "BadRequest")
    /\ UNCHANGED <<clock, tzOffset, jwt, tokens, issued, netCalls, nCalls,
                   jwtOut>>
    /\ UNCHANGED notApp

\* the issuance endpoint answers with {token, expires_at}
RespondToken(t, lifetime, expires_at) ==
    /\ tasks[t].pc = "await"
    /\ LET rec == [tasks[t] EXCEPT !.got = Answer(201, expires_at)]
           res == [token |-> Len(issued) + 1, expires_at |-> expires_at]
           parsed == ParseIsotime(res.expires_at, tzOffset)
       IN  IF parsed.exc # ""
           THEN /\ Raise(t, rec, parsed.exc)
                /\ UNCHANGED <<tokens, issued>>
           ELSE /\ issued' = Append(issued, clock + lifetime)
                /\ tokens' = StoreToken(tokens, rec.inst, parsed.value,
                                        res.token)
                /\ Finish(t, rec, res.token, TRUE)
    /\ UNCHANGED <<clock, tzOffset, jwt, netCalls, nCalls, jwtOut>>
    /\ UNCHANGED notApp

\* the answers of the endpoint: a well-formed one for every lifetime, and
\* the malformed ones for GitHub's own lifetime
Respond(t) ==
    \/ RespondBadRequest(t)
    \/ \E lifetime \in TokenLifetimes :
          RespondToken(t, lifetime, TimeStr(clock + lifetime, "Z"))
    \/ \E form \in ExpiresAtForms(clock + GitHubLifetime) :
          /\ form.tail # "Z"
          /\ RespondToken(t, GitHubLifetime, form)

\* the task suspended in the issuance POST is cancelled: CancelledError
\* leaves get_installation_token at its await
Abandon(t) ==
    /\ tasks[t].pc = "await"
    /\ Raise(t, tasks[t], "CancelledError")
    /\ UNCHANGED <<clock, tzOffset, jwt, tokens, issued, netCalls, nCalls,
                   jwtOut>>
    /\ UNCHANGED notApp

NextApp ==
    \/ Tick
    \/ CallAppJwt
    \/ \E t \in Tasks, i \in Installations : CallInstallationToken(t, i)
    \/ \E t \in Tasks, e \in Events : CallGithubApi(t, e[1], e[2])
    \/ \E t \in Tasks : Respond(t)

\* ---------------------------------------------------------------- git
\* the tree every file of which holds c
UniformTree(c) == [f \in Files |-> c]

\* the commit every repository starts from, and one that somebody else has
\* pushed to the fork meanwhile
RootCommit == [parent |-> 0, tree |-> UniformTree("v1")]
ForeignCommit == [parent |-> 1, tree |-> UniformTree("v2")]

\* the commits the checkout starts with: none of them made by a call
InitialCommits == <<RootCommit, ForeignCommit>>

\* commit.tree
TreeOf(cs, c) == cs[c].tree

\* a is c or one of its ancestors
RECURSIVE IsAncestor(_, _, _)
IsAncestor(cs, a, c) ==
    IF c = 0 THEN FALSE
    ELSE IF a = c THEN TRUE
    ELSE IsAncestor(cs, a, cs[c].parent)

\* repo.index.add(files): the listed files are staged as they are on disk
IndexAdd(idx, tree, files) ==
    [f \in Files |-> IF f \in files THEN tree[f] ELSE idx[f]]

IndexDiff_Always(idx, tree) == Files

\* repo.index.diff("HEAD"): the files staged differently from HEAD
IndexDiff(idx, tree) == {f \in Files : idx[f] # tree[f]}

\* one git.PushInfo
PushInfo(flags, summary) == [flags |-> flags, summary |-> summary]

\* Remote.push(refspec) for one branch: the PushInfo list it returns and
\* the branch on the remote afterwards. The list is empty when the push
\* fails as a whole (no such local branch, remote unreachable).
RemotePush(cs, localRef, remoteRef, net) ==
    IF localRef = 0 \/ net = "down"
    THEN [res |-> <<>>, ref |-> remoteRef]
    ELSE IF net = "declined"
    THEN [res |-> <<PushInfo({"ERROR", "REMOTE_REJECTED"}, "[remote rejected]")>>,
          ref |-> remoteRef]
    ELSE IF remoteRef = 0
    THEN [res |-> <<PushInfo({"NEW_HEAD"}, "[new branch]")>>, ref |-> localRef]
    ELSE IF remoteRef = localRef
    THEN [res |-> <<PushInfo({"UP_TO_DATE"}, "[up to date]")>>, ref |-> remoteRef]
    ELSE IF IsAncestor(cs, remoteRef, localRef)
    THEN [res |-> <<PushInfo({"FAST_FORWARD"}, "fast-forward")>>, ref |-> localRef]
    ELSE [res |-> <<PushInfo({"ERROR", "REJECTED"}, "[rejected]")>>,
          ref |-> remoteRef]

\* what the network may do to a push
NetStates == {"ok", "declined", "down"}

\* res[0].flags & ~(git.PushInfo.FAST_FORWARD | git.PushInfo.NEW_HEAD)
PushFailed(flags) == flags \ {"FAST_FORWARD", "NEW_HEAD"}

ShouldPush_Always(dry_run) == TRUE

\* `if not self.dry_run:` of commit_and_push_changes
ShouldPush(dry_run) == ~dry_run

\* git checkout refuses to overwrite a locally modified file
CheckoutAllowed(wt, from, to) ==
    \A f \in Files : wt[f] # from[f] => to[f] = from[f]

\* git checkout: local modifications are carried over
CheckoutTree(wt, from, to) ==
    [f \in Files |-> IF wt[f] # from[f] THEN wt[f] ELSE to[f]]

NoBotOut ==
    [call |-> 0, op |-> "", branch |-> "", files |-> {}, number |-> 0,
     ok |-> FALSE, num |-> 0, exc |-> "", msg |-> "", pushed |-> FALSE,
     flags |-> {}, summary |-> ""]

\* a call of operation op: its record before the outcome is filled in;
\* pushed, flags and summary are those of res[0] when the push returned one
BotCall(op) == [NoBotOut EXCEPT !.call = botCalls + 1, !.op = op]

\* GitHandler.__init__ over a checkout that was on branch prev: that branch
\* is remembered and master checked out
HandlerStart(prevs) ==
    /\ prevActive \in prevs
    /\ closed = FALSE

BotStart(dry, refs) ==
    /\ commits = InitialCommits
    /\ heads = [b \in Branches |-> IF b \in {"master", prevActive} THEN 1 ELSE 0]
    /\ active = "master"
    /\ index = RootCommit.tree
    /\ worktree = RootCommit.tree
    /\ homeMaster = 1
    /\ forkRefs \in {r \in [Branches -> refs \cup {1}] :
                        /\ r["master"] = 1
                        /\ \A b \in Branches \ {"master"} : r[b] \in refs}
    /\ gitDryRun \in dry
    /\ pushes = 0
    /\ ghDryRun \in dry
    /\ ghWrites = 0
    /\ ghNext = 1
    /\ botCalls = 0
    /\ botOut = NoBotOut

\* ---------------------------------------------------------------- strings
\* A Python str is the sequence of its characters: "/w/r" is
\* <<"/", "w", "/", "r">>.

\* str.startswith
StartsWith(s, prefix) ==
    Len(prefix) <= Len(s) /\ SubSeq(s, 1, Len(prefix)) = prefix

\* `sub in s`
Contains(s, sub) ==
    \E i \in 0..(Len(s) - Len(sub)) : SubSeq(s, i + 1, i + Len(sub)) = sub

\* str.lstrip(ch)
RECURSIVE LStrip(_, _)
LStrip(s, ch) ==
    IF s # <<>> /\ Head(s) = ch THEN LStrip(Tail(s), ch) ELSE s

\* str.split(sep)
RECURSIVE Split(_, _)
Split(s, sep) ==
    IF s = <<>> THEN << <<>> >>
    ELSE LET rest == Split(Tail(s), sep)
         IN  IF Head(s) = sep
             THEN << <<>> >> \o rest
             ELSE << <<Head(s)>> \o Head(rest) >> \o Tail(rest)

\* sep.join(parts)
RECURSIVE Join(_, _)
Join(parts, sep) ==
    IF parts = <<>> THEN <<>>
    ELSE IF Len(parts) = 1 THEN parts[1]
    ELSE parts[1] \o <<sep>> \o Join(Tail(parts), sep)

\* os.path.isabs
IsAbs(path) == path # <<>> /\ Head(path) = "/"

\* os.path.join(a, b)
PathJoin(a, b) ==
    IF IsAbs(b) THEN b
    ELSE IF a = <<>> \/ a[Len(a)] = "/" THEN a \o b
    ELSE a \o <<"/">> \o b

\* the loop of posixpath.normpath over the components of an absolute path:
\* "" and "." are skipped, ".." drops the component before it
RECURSIVE NormComps(_, _)
NormComps(comps, new_comps) ==
    IF comps = <<>> THEN new_comps
    ELSE LET comp == Head(comps)
         IN  IF comp = <<>> \/ comp = <<".">>
             THEN NormComps(Tail(comps), new_comps)
             ELSE IF comp # <<".", ".">>
             THEN NormComps(Tail(comps), Append(new_comps, comp))
             ELSE IF new_comps # <<>>
             THEN NormComps(Tail(comps),
                            SubSeq(new_comps, 1, Len(new_comps) - 1))
             ELSE NormComps(Tail(comps), new_comps)

\* os.path.abspath(path) with the process in directory cwd
AbsPath(path, cwd) ==
    LET joined == IF IsAbs(path) THEN path ELSE PathJoin(cwd, path)
    IN  <<"/">> \o Join(NormComps(Split(joined, "/"), <<>>), "/")

\* ----------------------------------------------------------- surroundings
\* repo.working_dir
RepoRoot == <<"/", "w", "/", "r">>
\* the directories the process may run in
Cwds == {<<"/", "w", "/", "r">>, <<"/", "w">>}
\* the blobs a branch's commit tree may hold, by their path in the tree
TreePaths == {<<"a">>, <<"x", "/", "a">>}
\* the file names handed to read_from_branch
FileNames ==
    { <<"a">>,
      <<"/", "w", "/", "r", "/", "a">>,
      <<"/", "w", "/", "r", "/", "x", "/", "a">>,
      <<"/", "w", "/", "r", "/", "x", "/", ".", ".", "/", "a">>,
      <<"/", "w", "/", "r", "/", ".", ".", "/", "a">>,
      <<".", ".", "/", "a">>,
      <<"/", "w", "/", "r", "x", "/", "a">>,
      <<"/", "w", "/", "r", "/", ".", ".", "/", "r", "x", "/", "a">> }


\* one remote of the repository: its name and its URLs
Remote(name, urls) == [name |-> name, urls |-> urls]
\* repo.remotes, in the order the repository lists them
RemoteLists ==
    { \* the clone of the project alone
      << Remote(<<"o">>, << <<"g", "/", "b", "c", "/", "r">> >>) >>,
      \* the project and a fork of it
      << Remote(<<"o">>, << <<"g", "/", "b", "c", "/", "r">> >>),
         Remote(<<"f">>, << <<"g", "/", "m", "e", "/", "r">> >>) >>,
      \* a remote named as a part of the URLs of the one before it, which
      \* has a push URL next to its fetch URL
      << Remote(<<"u">>, << <<"g", "/", "b", "c", "/", "r">>,
                            <<"g", "/", "m", "e", "/", "r">> >>),
         Remote(<<"m", "e">>, << <<"g", "/", "m", "e", "/", "r">> >>) >> }
\* what get_remote is asked for
Descs == {<<"o">>, <<"f">>, <<"m", "e">>, <<"b", "c">>, <<"r">>, <<"z">>}

\* branch.name of the branch asked about, and other names
BranchName == <<"b">>
\* `git log -1`: the one commit it found, or none
LogEntry(found, hash, head, refs, subject) ==
    [found |-> found, hash |-> hash, head |-> head, refs |-> refs,
     subject |-> subject]
\* the commits `git log -1 master...branch -- path` may find: the hash, is
\* HEAD on the first ref, the refs at the commit, the subject
LogEntries ==
    { LogEntry(FALSE, <<>>, FALSE, <<>>, <<>>) }
    \cup { LogEntry(TRUE, hash, head, refs, subject) :
             hash \in {<<"c", "1">>, <<"1", "b">>},
             head \in BOOLEAN,
             refs \in {<<>>, << <<"b">> >>, << <<"m">> >>,
                       << <<"b", "2">> >>, << <<"f", "/", "b">> >>,
                       << <<"b">>, <<"f", "/", "b">> >>},
             subject \in {<<"f", "i", "x">>, <<"u", "p", " ", "b">>} }

\* the user names asked about ("" for a missing login)
Usernames == {<<>>, <<"a", "n", "n">>}
\* the HTTP status the membership request may be answered with
Statuses == {204, 302, 401, 403, 404, 500}

DefaultEnv == [cwd |-> RepoRoot, tree |-> {}, remotes |-> <<>>]

NoLibOut ==
    [op |-> "", file |-> <<>>, exc |-> "", read |-> {}, arg |-> <<>>,
     ret |-> 0]

\* a call of helper op: its record before the outcome is filled in
LibCall(op) == [NoLibOut EXCEPT !.op = op]

LockPermits_Two == 1 + 1

\* asyncio.Semaphore(1)
LockPermits == 1
\* the callers that take the lock
Workers == {1, 2}
IdleWorker == [pc |-> "idle", branch |-> ""]
\* lock_working_dir after construction, the callers in `ws` about to use it
LockStart(ws) ==
    /\ permits = LockPermits
    /\ workers = [w \in Workers |->
                    IF w \in ws THEN IdleWorker
                    ELSE [IdleWorker EXCEPT !.pc = "done"]]

\* the helpers are not in use
LibIdle == env = DefaultEnv /\ libOut = NoLibOut

LibStart ==
    /\ env \in [cwd : Cwds, tree : SUBSET TreePaths, remotes : RemoteLists]
    /\ libOut = NoLibOut

\* the GitHubAppHandler after construction
InitApp ==
    /\ AppStart(TZOffsets) /\ HandlerStart({"master"})
    /\ BotStart({FALSE}, {0}) /\ LibIdle /\ LockStart({})

\* the GitHandler and the GitHubHandler after construction
InitGit ==
    /\ AppStart({0}) /\ HandlerStart({"master"})
    /\ BotStart(BOOLEAN, {0, 1, 2}) /\ LibIdle /\ LockStart({})

\* a GitHandler over a checkout left on any of its branches
InitBranch ==
    /\ AppStart({0}) /\ HandlerStart(Branches)
    /\ BotStart({FALSE}, {0, 2}) /\ LibIdle /\ LockStart({})

\* the helpers of the GitHandler, in the surroundings they may find
InitLib ==
    /\ AppStart({0}) /\ HandlerStart({"master"})
    /\ BotStart({FALSE}, {0}) /\ LibStart /\ LockStart({})

\* the caller edits a recipe file in the working directory
WriteFile(f, c) ==
    /\ worktree[f] # c
    /\ worktree' = [worktree EXCEPT ![f] = c]
    /\ UNCHANGED <<commits, heads, active, index, homeMaster, forkRefs,
                   gitDryRun, pushes, ghDryRun, ghWrites, ghNext, botCalls,
                   botOut>>
    /\ UNCHANGED notBot

CreateHead_Force(hs, name, commit) ==
    [exc |-> "", heads |-> [hs EXCEPT ![name] = commit]]

\* repo.create_head(name, commit), force not given: a reference that exists
\* is left alone, and OSError raised unless it points at that commit
CreateHead(hs, name, commit) ==
    IF hs[name] = 0
    THEN [exc |-> "", heads |-> [hs EXCEPT ![name] = commit]]
    ELSE IF hs[name] = commit
    THEN [exc |-> "", heads |-> hs]
    ELSE [exc |-> "OSError", heads |-> hs]

\* prepare_branch(branch_name), net being what the fetch from the home
\* remote meets: the exception raised and the repository afterwards
PrepareBranchResult(branch_name, net) ==
    LET missing == heads[branch_name] = 0
        created == IF missing
                   THEN CreateHead(heads, branch_name, homeMaster).heads
                   ELSE heads
        from == TreeOf(commits, heads[active])
        to == TreeOf(commits, created[branch_name])
        asBefore == [exc |-> "GitCommandError", heads |-> heads,
                     active |-> active, index |-> index,
                     worktree |-> worktree]
    IN  IF missing /\ net # "ok"
        THEN asBefore
        ELSE IF CheckoutAllowed(worktree, from, to)
        THEN [exc |-> "", heads |-> created, active |-> branch_name,
              index |-> to, worktree |-> CheckoutTree(worktree, from, to)]
        ELSE [asBefore EXCEPT !.heads = created]

\* a call of prepare_branch(branch_name)
PrepareBranch(branch_name, net) ==
    /\ botCalls < MaxBotCalls
    /\ botCalls' = botCalls + 1
    /\ LET call == [BotCall("prepare_branch") EXCEPT !.branch = branch_name]
           r == PrepareBranchResult(branch_name, net)
       IN  /\ heads' = r.heads
           /\ active' = r.active
           /\ index' = r.index
           /\ worktree' = r.worktree
           /\ botOut' = IF r.exc = "" THEN [call EXCEPT !.ok = TRUE]
                        ELSE [call EXCEPT !.exc = r.exc]
    /\ UNCHANGED <<commits, homeMaster, forkRefs, gitDryRun, pushes,
                   ghDryRun, ghWrites, ghNext>>
    /\ UNCHANGED notBot

\* create_local_branch(branch_name)
CreateLocalBranch(branch_name) ==
    /\ botCalls < MaxBotCalls
    /\ botCalls' = botCalls + 1
    /\ LET call == [BotCall("create_local_branch") EXCEPT
                       !.branch = branch_name]
           remote_branch == forkRefs[branch_name]
           made == CreateHead(heads, branch_name, remote_branch)
       IN  IF remote_branch = 0
           THEN /\ botOut' = [call EXCEPT !.exc = "AttributeError"]
                /\ heads' = heads
           ELSE /\ heads' = made.heads
                /\ botOut' = IF made.exc # ""
                             THEN [call EXCEPT !.exc = made.exc]
                             ELSE [call EXCEPT !.ok = TRUE]
    /\ UNCHANGED <<commits, active, index, worktree, homeMaster, forkRefs,
                   gitDryRun, pushes, ghDryRun, ghWrites, ghNext>>
    /\ UNCHANGED notBot

\* delete_local_branch(branch), branch being a local branch other than the
\* one checked out
DeleteLocalBranch(branch_name) ==
    /\ botCalls < MaxBotCalls
    /\ heads[branch_name] # 0
    /\ branch_name # active
    /\ botCalls' = botCalls + 1
    /\ heads' = [heads EXCEPT ![branch_name] = 0]
    /\ botOut' = [BotCall("delete_local_branch") EXCEPT
                     !.branch = branch_name, !.ok = TRUE]
    /\ UNCHANGED <<commits, active, index, worktree, homeMaster, forkRefs,
                   gitDryRun, pushes, ghDryRun, ghWrites, ghNext>>
    /\ UNCHANGED notBot

\* somebody else's commit arrives on the home remote's master
HomeMoves ==
    /\ homeMaster = 1
    /\ homeMaster' = 2
    /\ UNCHANGED <<commits, heads, active, index, worktree, forkRefs,
                   gitDryRun, pushes, ghDryRun, ghWrites, ghNext, botCalls,
                   botOut>>
    /\ UNCHANGED notBot

\* GitHandler.close(): `git checkout <prev_active_branch>`, then
\* GitHandlerBase.close(). For a name that is no local branch any more git
\* sets the branch up from the fork's branch of that name, and fails when
\* there is none.
Close ==
    /\ ~closed
    /\ LET call == [BotCall("close") EXCEPT !.branch = prevActive]
           hs == IF heads[prevActive] = 0
                 THEN [heads EXCEPT ![prevActive] = forkRefs[prevActive]]
                 ELSE heads
           from == TreeOf(commits, heads[active])
       IN  IF hs[prevActive] = 0
              \/ ~CheckoutAllowed(worktree, from, TreeOf(commits, hs[prevActive]))
           THEN /\ botOut' = [call EXCEPT !.exc = "GitCommandError"]
                /\ UNCHANGED <<heads, active, index, worktree, closed>>
           ELSE /\ heads' = hs
                /\ active' = prevActive
                /\ index' = TreeOf(commits, hs[prevActive])
                /\ worktree' = CheckoutTree(worktree, from,
                                            TreeOf(commits, hs[prevActive]))
                /\ botOut' = [call EXCEPT !.ok = TRUE]
                /\ closed' = TRUE
    /\ botCalls' = botCalls + 1
    /\ botCalls < MaxBotCalls + 1
    /\ UNCHANGED <<commits, homeMaster, forkRefs, gitDryRun, pushes,
                   ghDryRun, ghWrites, ghNext, prevActive>>
    /\ UNCHANGED <<appVars, libVars, lockVars>>

\* delete_remote_branch(branch_name)
DeleteRemoteBranch(branch_name, net) ==
    /\ botCalls < MaxBotCalls
    /\ botCalls' = botCalls + 1
    /\ IF ~gitDryRun
       THEN /\ pushes' = pushes + 1
            /\ forkRefs' = IF net = "ok"
                           THEN [forkRefs EXCEPT ![branch_name] = 0]
                           ELSE forkRefs
       ELSE UNCHANGED <<pushes, forkRefs>>
    /\ botOut' = [BotCall("delete_remote_branch") EXCEPT
                     !.branch = branch_name, !.ok = TRUE]
    /\ UNCHANGED <<commits, heads, active, index, worktree, homeMaster,
                   gitDryRun, ghDryRun, ghWrites, ghNext>>
    /\ UNCHANGED notBot

CommitTarget_Named(act, branch_name) == branch_name

\* repo.index.commit(msg) and `git commit -S -m msg` move the checked-out
\* branch (HEAD); branch_name takes no part in the commit
CommitTarget(act, branch_name) == act

\* commit_and_push_changes(files, branch_name, msg, sign)
CommitAndPush(files, branch_name, sign, net) ==
    /\ botCalls < MaxBotCalls
    /\ botCalls' = botCalls + 1
    /\ LET call == [BotCall("commit_and_push_changes") EXCEPT
                       !.branch = branch_name, !.files = files]
           staged == IndexAdd(index, worktree, files)
           head == heads[active]
       IN  /\ index' = staged
           /\ IF IndexDiff(staged, TreeOf(commits, head)) = {}
              THEN /\ botOut' = call
                   /\ UNCHANGED <<commits, heads, forkRefs, pushes>>
              ELSE LET cs == Append(commits, [parent |-> head, tree |-> staged])
                       hs == [heads EXCEPT
                                ![CommitTarget(active, branch_name)] = Len(cs)]
                       push == RemotePush(cs, hs[branch_name],
                                          forkRefs[branch_name], net)
                   IN  /\ commits' = cs
                       /\ heads' = hs
                       /\ IF ShouldPush(gitDryRun)
                          THEN /\ pushes' = pushes + 1
                               /\ forkRefs' = [forkRefs EXCEPT
                                                  ![branch_name] = push.ref]
                               /\ botOut' =
                                    IF push.res = <<>>
                                    THEN [call EXCEPT !.exc = "IndexError"]
                                    ELSE IF PushFailed(push.res[1].flags) # {}
                                    THEN [call EXCEPT
                                            !.exc = "GitHandlerFailure",
                                            !.msg = push.res[1].summary,
                                            !.pushed = TRUE,
                                            !.flags = push.res[1].flags,
                                            !.summary = push.res[1].summary]
                                    ELSE [call EXCEPT
                                            !.ok = TRUE,
                                            !.pushed = TRUE,
                                            !.flags = push.res[1].flags,
                                            !.summary = push.res[1].summary]
                          ELSE /\ botOut' = [call EXCEPT !.ok = TRUE]
                               /\ UNCHANGED <<forkRefs, pushes>>
    /\ UNCHANGED <<active, worktree, homeMaster, gitDryRun, ghDryRun,
                   ghWrites, ghNext>>
    /\ UNCHANGED notBot

\* ------------------------------------------------------- GitHubHandler
\* self.api.post / self.api.patch: the request is sent; GitHub numbers what
\* it creates, or answers with an error that gidgethub raises
ApiWrite(call, answer, created) ==
    /\ ghWrites' = ghWrites + 1
    /\ IF answer = "ok"
       THEN /\ ghNext' = IF created THEN ghNext + 1 ELSE ghNext
            /\ botOut' = [call EXCEPT !.ok = TRUE,
                             !.num = IF created THEN ghNext ELSE call.number]
       ELSE /\ ghNext' = ghNext
            /\ botOut' = [call EXCEPT !.exc = answer]

ApiAnswers == {"ok", "BadRequest"}

\* create_pr(title, from_branch, ...)
CreatePr(from_branch, answer) ==
    /\ botCalls < MaxBotCalls
    /\ botCalls' = botCalls + 1
    /\ LET call == [BotCall("create_pr") EXCEPT !.branch = from_branch]
       IN  IF ghDryRun
           THEN /\ botOut' = [call EXCEPT !.ok = TRUE, !.num = -1]
                /\ UNCHANGED <<ghWrites, ghNext>>
           ELSE ApiWrite(call, answer, TRUE)
    /\ UNCHANGED <<gitVars, ghDryRun>>
    /\ UNCHANGED notBot

\* modify_issue(number, labels, title, body)
ModifyIssue(number, answer) ==
    /\ botCalls < MaxBotCalls
    /\ botCalls' = botCalls + 1
    /\ LET call == [BotCall("modify_issue") EXCEPT !.number = number]
       IN  IF ghDryRun
           THEN /\ botOut' = [call EXCEPT !.ok = TRUE, !.num = number]
                /\ UNCHANGED <<ghWrites, ghNext>>
           ELSE ApiWrite(call, answer, FALSE)
    /\ UNCHANGED <<gitVars, ghDryRun>>
    /\ UNCHANGED notBot

\* create_comment(number, body)
CreateComment(number, answer) ==
    /\ botCalls < MaxBotCalls
    /\ botCalls' = botCalls + 1
    /\ LET call == [BotCall("create_comment") EXCEPT !.number = number]
       IN  IF ghDryRun
           THEN /\ botOut' = [call EXCEPT !.ok = TRUE, !.num = -1]
                /\ UNCHANGED <<ghWrites, ghNext>>
           ELSE ApiWrite(call, answer, TRUE)
    /\ UNCHANGED <<gitVars, ghDryRun>>
    /\ UNCHANGED notBot

NextGit ==
    \/ \E f \in Files, c \in Contents : WriteFile(f, c)
    \/ \E b \in Branches, net \in {"ok", "down"} : PrepareBranch(b, net)
    \/ \E b \in Branches, net \in NetStates : DeleteRemoteBranch(b, net)
    \/ \E files \in SUBSET Files, b \in Branches, sign \in BOOLEAN,
          net \in NetStates : CommitAndPush(files, b, sign, net)
    \/ \E b \in Branches, a \in ApiAnswers : CreatePr(b, a)
    \/ \E n \in IssueNumbers, a \in ApiAnswers : ModifyIssue(n, a)
    \/ \E n \in IssueNumbers, a \in ApiAnswers : CreateComment(n, a)

\* --------------------------------------------------------- specifications
SpecApp == InitApp /\ [][NextApp]_vars

\* the GitHubAppHandler with tasks that may be cancelled
InitRace ==
    /\ AppStart({0}) /\ HandlerStart({"master"})
    /\ BotStart({FALSE}, {0}) /\ LibIdle /\ LockStart({})

NextRace ==
    \/ Tick
    \/ \E t \in Tasks, i \in Installations : CallInstallationToken(t, i)
    \/ \E t \in Tasks : Respond(t)
    \/ \E t \in Tasks : Abandon(t)

SpecRace == InitRace /\ [][NextRace]_vars

SpecGit == InitGit /\ [][NextGit]_vars

\* ------------------------------------------------- the working directory lock
\* `async with git.lock_working_dir:` entered by a caller that is going to
\* work on branch_name: Semaphore.acquire
LockAcquire(w, branch_name) ==
    /\ workers[w].pc = "idle"
    /\ permits > 0
    /\ permits' = permits - 1
    /\ workers' = [workers EXCEPT ![w] = [pc |-> "locked",
                                          branch |-> branch_name]]
    /\ UNCHANGED <<appVars, botVars, libVars, prevActive, closed>>

\* the caller runs prepare_branch on its branch
WorkerPrepare(w, net) ==
    /\ workers[w].pc = "locked"
    /\ LET r == PrepareBranchResult(workers[w].branch, net)
       IN  /\ heads' = r.heads
           /\ active' = r.active
           /\ index' = r.index
           /\ worktree' = r.worktree
           /\ workers' = [workers EXCEPT
                             ![w].pc = IF r.exc = "" THEN "prepared"
                                       ELSE "failed"]
    /\ UNCHANGED <<commits, homeMaster, forkRefs, gitDryRun, pushes,
                   ghDryRun, ghWrites, ghNext, botCalls, botOut>>
    /\ UNCHANGED <<appVars, libVars, prevActive, closed, permits>>

\* the caller edits a recipe file of the branch it prepared
WorkerEdit(w, f, c) ==
    /\ workers[w].pc = "prepared"
    /\ worktree[f] # c
    /\ worktree' = [worktree EXCEPT ![f] = c]
    /\ UNCHANGED <<commits, heads, active, index, homeMaster, forkRefs,
                   gitDryRun, pushes, ghDryRun, ghWrites, ghNext, botCalls,
                   botOut>>
    /\ UNCHANGED <<appVars, libVars, prevActive, closed, lockVars>>

\* the `async with` block is left, by its end or by the exception:
\* Semaphore.release
LockRelease(w) ==
    /\ workers[w].pc \in {"prepared", "failed"}
    /\ permits' = permits + 1
    /\ workers' = [workers EXCEPT ![w].pc = "done"]
    /\ UNCHANGED <<appVars, botVars, libVars, prevActive, closed>>

InitLock ==
    /\ AppStart({0}) /\ HandlerStart({"master"})
    /\ BotStart({FALSE}, {0}) /\ LibIdle /\ LockStart(Workers)

NextLock ==
    \/ \E w \in Workers, b \in Branches : LockAcquire(w, b)
    \/ \E w \in Workers, net \in {"ok", "down"} : WorkerPrepare(w, net)
    \/ \E w \in Workers, f \in Files, c \in Contents : WorkerEdit(w, f, c)
    \/ \E w \in Workers : LockRelease(w)

SpecLock == InitLock /\ [][NextLock]_vars

\* the branch operations of a GitHandler until it is closed
NextBranch ==
    \/ ~closed /\ \E f \in Files, c \in Contents : WriteFile(f, c)
    \/ ~closed /\ HomeMoves
    \/ ~closed /\ \E b \in Branches, net \in {"ok", "down"} :
                     PrepareBranch(b, net)
    \/ ~closed /\ \E b \in Branches : CreateLocalBranch(b)
    \/ ~closed /\ \E b \in Branches : DeleteLocalBranch(b)
    \/ ~closed /\ \E files \in SUBSET Files, b \in Branches :
                     CommitAndPush(files, b, FALSE, "ok")
    \/ Close

SpecBranch == InitBranch /\ [][NextBranch]_vars

\* ------------------------------------------------------------- helpers
\* read_from_branch(branch, file_name): the exception raised and the blobs
\* of branch.commit.tree that were read
ReadFromBranch(tree, working_dir, cwd, file_name) ==
    LET abs_file_name == AbsPath(file_name, cwd)
        abs_repo_root == AbsPath(working_dir, cwd)
    IN  IF ~StartsWith(abs_file_name, abs_repo_root)
        THEN [exc |-> "RuntimeError", read |-> {}]
        ELSE LET rel_file_name ==
                     LStrip(SubSeq(abs_file_name, Len(abs_repo_root) + 1,
                                   Len(abs_file_name)), "/")
             IN  IF rel_file_name \in tree
                 THEN [exc |-> "", read |-> {rel_file_name}]
                 ELSE [exc |-> "KeyError", read |-> {}]

\* a call of read_from_branch
CallReadFromBranch(file_name) ==
    /\ LET r == ReadFromBranch(env.tree, RepoRoot, env.cwd, file_name)
       IN  libOut' = [LibCall("read_from_branch") EXCEPT
                         !.file = file_name, !.exc = r.exc, !.read = r.read]
    /\ UNCHANGED <<env, notLib>>

\* `git log -1 --oneline --decorate`: what it prints for the commit found
GitLogOneline(entry) ==
    IF ~entry.found THEN <<>>
    ELSE entry.hash
         \o (IF entry.refs = <<>> THEN <<>>
             ELSE <<" ", "(">>
                  \o (IF entry.head THEN <<"H", "E", "A", "D", " ", "-", ">", " ">>
                      ELSE <<>>)
                  \o Join([k \in 1..Len(entry.refs) |->
                             IF k = 1 THEN entry.refs[k]
                             ELSE <<" ">> \o entry.refs[k]], ",")
                  \o <<")">>)
         \o <<" ">> \o entry.subject \o <<"\n">>

\* branch_is_current: `branch.name in stdout.decode('ascii')`
BranchIsCurrent(name, stdout) == Contains(stdout, name)

\* a call of branch_is_current(branch, path, master)
CallBranchIsCurrent(entry) ==
    /\ libOut' = [LibCall("branch_is_current") EXCEPT
                     !.arg = entry,
                     !.ret = BranchIsCurrent(BranchName, GitLogOneline(entry))]
    /\ UNCHANGED <<env, notLib>>

GetRemote_FirstUrl(remotes, desc) ==
    LET hits == {k \in 1..Len(remotes) :
                    \E u \in 1..Len(remotes[k].urls) :
                        Contains(remotes[k].urls[u], desc)}
    IN  IF hits = {} THEN [exc |-> "KeyError", ret |-> 0]
        ELSE [exc |-> "", ret |-> CHOOSE k \in hits : \A j \in hits : k <= j]

\* get_remote(desc): the exception raised, or the position in repo.remotes
\* of the remote returned
GetRemote(remotes, desc) ==
    LET named == {k \in 1..Len(remotes) : remotes[k].name = desc}
        \* any(filter(lambda x: desc in x, r.urls)): a URL that holds desc
        \* and is not the empty string
        hits == {k \in 1..Len(remotes) :
                    \E u \in 1..Len(remotes[k].urls) :
                        /\ Contains(remotes[k].urls[u], desc)
                        /\ remotes[k].urls[u] # <<>>}
    IN  IF named # {}
        THEN [exc |-> "", ret |-> CHOOSE k \in named : TRUE]
        ELSE IF hits = {} THEN [exc |-> "KeyError", ret |-> 0]
        ELSE [exc |-> "", ret |-> CHOOSE k \in hits : \A j \in hits : k <= j]

\* a call of get_remote(desc)
CallGetRemote(desc) ==
    /\ LET r == GetRemote(env.remotes, desc)
       IN  libOut' = [LibCall("get_remote") EXCEPT
                         !.arg = desc, !.exc = r.exc, !.ret = r.ret]
    /\ UNCHANGED <<env, notLib>>

\* gidgethub: the exception api.getitem raises for an HTTP status
GidgethubError(status) ==
    IF status >= 500 THEN "GitHubBroken"
    ELSE IF status >= 400 THEN "BadRequest"
    ELSE IF status >= 300 THEN "RedirectionException"
    ELSE ""

\* is_member(username), the membership request answered with status
IsMember(username, status) ==
    IF username = <<>> THEN [exc |-> "", ret |-> FALSE, sent |-> FALSE]
    ELSE IF GidgethubError(status) = "BadRequest"
    THEN [exc |-> "", ret |-> FALSE, sent |-> TRUE]
    ELSE IF GidgethubError(status) # ""
    THEN [exc |-> GidgethubError(status), ret |-> FALSE, sent |-> TRUE]
    ELSE [exc |-> "", ret |-> TRUE, sent |-> TRUE]

\* a call of is_member(username)
CallIsMember(username, status) ==
    /\ LET r == IsMember(username, status)
       IN  libOut' = [LibCall("is_member") EXCEPT
                         !.arg = [username |-> username,
                                  status |-> IF r.sent THEN status ELSE 0],
                         !.exc = r.exc, !.ret = r.ret]
    /\ UNCHANGED <<env, notLib>>

NextLib ==
    \/ \E f \in FileNames : CallReadFromBranch(f)
    \/ \E e \in LogEntries : CallBranchIsCurrent(e)
    \/ \E d \in Descs : CallGetRemote(d)
    \/ \E u \in Usernames, st \in Statuses : CallIsMember(u, st)

SpecLib == InitLib /\ [][NextLib]_vars

\* ------------------------------------------------- steps, as seen from outside
\* get_app_jwt ran in this step
JwtCalled == jwtOut'.call # jwtOut.call
\* task t sent the issuance POST in this step and is now suspended
Started(t) == tasks[t].pc = "idle" /\ tasks'[t].pc = "await"
\* a call returned or raised in this step
Ended == out'.call # out.call
\* ... having started in this very step (no await on its way)
EndedSync == Ended /\ nCalls' # nCalls
\* ... having been suspended in the issuance POST
EndedAsync == Ended /\ nCalls' = nCalls
\* a call returned (did not raise) in this step
Returned == Ended /\ out'.exc = ""

\* ---------------------------------------------------------------- claims
\* C1: the token get_app_jwt returns at time now is the token of the stored
\* pair, and that pair expires at now + 60 or later; the same holds for the
\* JWT that get_installation_token hands to the issuance POST when it sends
\* the request.
C1_AppJwtSafetyMargin ==
    [][/\ JwtCalled =>
           /\ jwtOut'.token = jwt'[2]
           /\ jwt'[1] >= clock' + 60
       /\ \A t \in Tasks : Started(t) =>
           /\ JwtCalled
           /\ jwtOut'.call = tasks'[t].call
           /\ jwtOut'.token = jwt'[2]
           /\ jwt'[2].exp >= clock' + 60]_vars

\* C1 witness: an issuance POST is in flight that carries a JWT minted for
\* it after the first one had come within 60 seconds of its expiry
C1_Witness ==
    \E t \in Tasks :
        /\ tasks[t].pc = "await"
        /\ jwtOut.call = tasks[t].call
        /\ jwtOut.token.iat > T0
        /\ jwtOut.token.iat = clock

\* C2 (as claimed): every token get_installation_token returns, cached or
\* fresh, is valid for 60 seconds or more when the call returns.
C2_TokenSafetyMargin ==
    [][(Returned /\ out'.op = "tok") =>
           issued'[out'.ret] >= clock' + 60]_vars

C4_AppJwtRenewalBoundary ==
    [][/\ JwtCalled =>
           /\ (jwt[1] = 0 \/ jwt[1] < clock + 60) =>
               /\ jwt'[2] # jwt[2]
               /\ jwt'[1] >= clock + 600
               /\ jwt'[2].exp = jwt'[1]
               /\ jwtOut'.token = jwt'[2]
           /\ ~(jwt[1] = 0 \/ jwt[1] < clock + 60) =>
               /\ jwt' = jwt
               /\ jwtOut'.token = jwt[2]
           /\ clock = jwt[1] - 61 => (jwt' = jwt /\ jwtOut'.token = jwt[2])
           /\ clock = jwt[1] - 59 => (jwt'[1] >= clock + 600 /\ jwt'[2] # jwt[2])
       /\ jwt' # jwt => JwtCalled]_vars

\* C4 witness: 59 seconds before the first credential expires a call
\* replaced it
C4_Witness ==
    /\ jwtOut.call > 0
    /\ clock = T0 + 600 - 59
    /\ jwt[2].iat = clock
    /\ jwtOut.token = jwt[2]

\* C5: a get_github_api call that finds a handler stored under its key
\* returns that very object, builds no handler, leaves the map as it is, and
\* has overwritten the object's OAUTH token with the token its
\* get_installation_token call returned.
C5_SessionReuse ==
    [][(Returned /\ out'.op = "api") =>
         LET key == <<out'.inst, out'.repo>>
         IN  /\ (EndedSync /\ key \in DOMAIN handlers) =>
                    out'.had = handlers[key]
             /\ (EndedSync /\ key \notin DOMAIN handlers) => out'.had = None
             /\ out'.had # None =>
                 /\ out'.ret = out'.had
                 /\ Len(heap') = Len(heap)
                 /\ handlers' = handlers
                 /\ heap'[out'.ret].oauth = tokens'[out'.inst][2]
                 /\ heap'[out'.ret].oauth = (IF out'.fresh THEN Len(issued')
                                             ELSE tokens[out'.inst][2])
                 /\ \A h \in 1..Len(heap) : h # out'.ret => heap'[h] = heap[h]]_vars

\* C5 witness: the second call for a key returned the handler of the first,
\* now carrying a token issued during the second call
C5_Witness ==
    /\ out.op = "api" /\ out.exc = "" /\ out.call = 2
    /\ out.had # None /\ out.ret = out.had /\ out.fresh
    /\ handlers[<<out.inst, out.repo>>] = out.ret
    /\ heap[out.ret].oauth = 2
    /\ heap[out.ret].token = 1

\* C6 (as claimed): once the token of an installation is renewed, every
\* cached session of that installation uses the renewed token.
C6_SessionsFollowRenewal ==
    \A key \in DOMAIN handlers :
        key[1] \in DOMAIN tokens =>
            heap[handlers[key]].oauth = tokens[key[1]][2]

\* C6 (amended): a session holds a copy of the token. The copy changes only
\* when get_github_api is called again for the session's own key, and then
\* to the token that call obtained; a renewal made by any other call leaves
\* the session's token as it was.
C6_TokenCopiedOnFetch ==
    [][/\ \A h \in 1..Len(heap) :
            heap'[h].oauth # heap[h].oauth =>
                /\ Returned /\ out'.op = "api"
                /\ out'.had = h /\ out'.ret = h
                /\ heap[h].repo = out'.repo
       /\ (Returned /\ out'.op = "api" /\ out'.had # None) =>
            heap'[out'.had].oauth = tokens'[out'.inst][2]
       /\ (Returned /\ out'.op = "tok") =>
            /\ heap' = heap
            /\ handlers' = handlers]_vars

\* C6 witness: a cached session still carries the token that a later
\* renewal for its installation has replaced in the token cache
C6_Witness ==
    \E key \in DOMAIN handlers :
        /\ key[1] \in DOMAIN tokens
        /\ heap[handlers[key]].oauth # tokens[key[1]][2]
        /\ out.fresh
        /\ out.inst = key[1]
        /\ <<out.inst, out.repo>> # key

\* a call into the GitHandler or the GitHubHandler ran in this step
BotCalled == botOut'.call # botOut.call
\* ... and it was commit_and_push_changes
CommitCalled == BotCalled /\ botOut'.op = "commit_and_push_changes"
\* the call of this step created no commit, pushed nothing, returned False
NoCommitNoPush ==
    /\ botOut'.ok = FALSE /\ botOut'.exc = ""
    /\ commits' = commits /\ heads' = heads
    /\ pushes' = pushes /\ forkRefs' = forkRefs
\* what the stage of this step's commit_and_push_changes holds for file f
StagedNow(f) == IF f \in botOut'.files THEN worktree[f] ELSE index[f]
\* the stage of this step's call differs from HEAD
ChangesStaged ==
    \E f \in Files : StagedNow(f) # commits[heads[active]].tree[f]

\* C7: a commit_and_push_changes call that follows another one with the
\* same files, their contents unchanged, returns False and neither commits
\* nor pushes; so does every call whose stage does not differ from HEAD.
C7_CommitIdempotent ==
    [][CommitCalled =>
        /\ (/\ botOut.op = "commit_and_push_changes"
            /\ botOut.files = botOut'.files
            /\ \A f \in botOut'.files : worktree[f] = index[f])
              => NoCommitNoPush
        /\ ~ChangesStaged => NoCommitNoPush]_vars

\* C7 witness: the first call committed an edited file, the second call
\* with the same files returned False
C7_Witness ==
    /\ botOut.call = 2 /\ botOut.op = "commit_and_push_changes"
    /\ botOut.files # {}
    /\ ~botOut.ok /\ botOut.exc = ""
    /\ Len(commits) = 3
    /\ \E f \in botOut.files : commits[3].tree[f] # commits[1].tree[f]

\* C8: with dry_run set no push reaches the fork remote and no POST or
\* PATCH reaches the API, and the calls return what their success path
\* returns: create_pr {number: -1}, create_comment -1, modify_issue
\* {number: <given>}, commit_and_push_changes True when there were changes.
C8_DryRunLeavesRemotes ==
    [][/\ gitDryRun => (pushes' = pushes /\ forkRefs' = forkRefs)
       /\ ghDryRun => (ghWrites' = ghWrites /\ ghNext' = ghNext)
       /\ (BotCalled /\ ghDryRun) =>
            /\ botOut'.op = "create_pr" =>
                  (botOut'.ok /\ botOut'.exc = "" /\ botOut'.num = -1)
            /\ botOut'.op = "create_comment" =>
                  (botOut'.ok /\ botOut'.exc = "" /\ botOut'.num = -1)
            /\ botOut'.op = "modify_issue" =>
                  (botOut'.ok /\ botOut'.exc = ""
                   /\ botOut'.num = botOut'.number)
       /\ (BotCalled /\ gitDryRun) =>
            /\ (botOut'.op = "commit_and_push_changes" /\ ChangesStaged) =>
                  (botOut'.ok /\ botOut'.exc = "")
            /\ botOut'.op = "delete_remote_branch" => botOut'.exc = ""]_vars

\* C8 witness: under dry_run a commit was made and a pull request asked
\* for, and neither remote has seen a request
C8_Witness ==
    /\ gitDryRun /\ ghDryRun
    /\ Len(commits) = 3
    /\ botOut.op = "create_pr" /\ botOut.num = -1
    /\ pushes = 0 /\ ghWrites = 0

\* C9 (as claimed): with dry_run set commit_and_push_changes creates no
\* commit: the branch heads are the same before and after the call.
C9_DryRunCommitsNothing ==
    [][(CommitCalled /\ gitDryRun) =>
            (commits' = commits /\ heads' = heads)]_vars

\* C10 (as claimed): without dry_run, once the commit is made, exactly one
\* push is sent and the call raises GitHandlerFailure with the remote's
\* summary if and only if the returned status flags hold one other than
\* fast-forward and new-head; in every other case it returns True.
C10_PushFailureDetection ==
    [][(CommitCalled /\ ~gitDryRun /\ Len(commits') > Len(commits)) =>
        /\ pushes' = pushes + 1
        /\ botOut'.exc = "GitHandlerFailure"
             <=> (/\ botOut'.pushed
                  /\ botOut'.flags \ {"FAST_FORWARD", "NEW_HEAD"} # {})
        /\ botOut'.exc = "GitHandlerFailure" =>
             (~botOut'.ok /\ botOut'.msg = botOut'.summary)
        /\ botOut'.exc # "GitHandlerFailure" =>
             (botOut'.ok /\ botOut'.exc = "")]_vars

\* the components of a path, "" and "." left out
Components(path) ==
    SelectSeq(Split(path, "/"), LAMBDA c : c # <<>> /\ c # <<".">>)
\* path lies in directory dir or below it: dir's components lead path's
LiesUnder(path, dir) ==
    LET p == Components(path)
        d == Components(dir)
    IN  Len(d) <= Len(p) /\ SubSeq(p, 1, Len(d)) = d

\* C11 (as claimed): read_from_branch raises, and reads nothing, for every
\* file_name that after normalization lies outside the repository root,
\* a sibling directory whose name starts with the root's name included.
C11_PathContainment ==
    (/\ libOut.op = "read_from_branch"
     /\ ~LiesUnder(AbsPath(libOut.file, env.cwd), RepoRoot))
        => (libOut.exc # "" /\ libOut.read = {})

\* C12 (as claimed): branch_is_current returns True exactly when the commit
\* `git log -1` finds is decorated with the branch's own name; a ref whose
\* name only contains it, or a subject that does, gives False, and so does
\* a range without a commit touching the path.
C12_BranchCurrency ==
    libOut.op = "branch_is_current" =>
        (libOut.ret <=>
            (/\ libOut.arg.found
             /\ \E k \in 1..Len(libOut.arg.refs) :
                    libOut.arg.refs[k] = BranchName))

C17_MembershipErrors ==
    (libOut.op = "is_member" /\ libOut.arg.status # 0) =>
        /\ libOut.arg.status = 404 => (libOut.exc = "" /\ libOut.ret = FALSE)
        /\ libOut.arg.status = 204 => (libOut.exc = "" /\ libOut.ret = TRUE)
        /\ libOut.arg.status \notin {204, 404} => libOut.exc # ""

\* C13: a prepare_branch(name) that returns leaves `name` checked out; a
\* local branch that existed keeps its commit, one that did not is created
\* at the tip fetched from the home remote's master; and no prepare_branch
\* or create_local_branch call moves a local branch that exists.
C13_BranchPreparation ==
    [][(BotCalled /\ botOut'.op \in {"prepare_branch", "create_local_branch"})
        => /\ \A b \in Branches : heads[b] # 0 => heads'[b] = heads[b]
           /\ (botOut'.op = "prepare_branch" /\ botOut'.exc = "") =>
                /\ active' = botOut'.branch
                /\ heads[botOut'.branch] = 0 =>
                      heads'[botOut'.branch] = homeMaster
           /\ (botOut'.op = "create_local_branch" /\ botOut'.exc = "") =>
                heads'[botOut'.branch] = forkRefs[botOut'.branch]]_vars

\* C13 witness: prepare_branch created a branch at the home remote's new
\* master and checked it out, while the fork holds that branch elsewhere
C13_Witness ==
    /\ botOut.op = "prepare_branch" /\ botOut.ok
    /\ botOut.branch = "bump" /\ active = "bump"
    /\ homeMaster = 2 /\ heads["bump"] = 2 /\ heads["master"] = 1
    /\ forkRefs["bump"] = 0

\* C18 (as claimed): close() leaves the repository on the branch that was
\* checked out when the GitHandler was constructed.
C18_RestoreOnClose ==
    [][(BotCalled /\ botOut'.op = "close") =>
            (botOut'.exc = "" /\ active' = prevActive)]_vars

\* C15: when the issuance endpoint answers a get_installation_token with a
\* 4xx, the call raises that BadRequest, the token cache is left as it was
\* for every installation, and no further POST is sent: POSTs are sent one
\* at a time, by calls that start.
C15_IssuanceFailure ==
    [][/\ (EndedAsync /\ out'.got.status >= 400) =>
            /\ out'.exc = "BadRequest"
            /\ tokens' = tokens
            /\ netCalls' = netCalls
            /\ tasks'[out'.task].pc = "idle"
       /\ netCalls' # netCalls =>
            (netCalls' = netCalls + 1 /\ \E t \in Tasks : Started(t))]_vars

\* C15 witness: the renewal of a cached token that had run out was answered
\* with a 4xx and raised
C15_Witness ==
    /\ out.exc = "BadRequest" /\ out.got.status >= 400
    /\ out.inst \in DOMAIN tokens
    /\ TokenExpired(tokens[out.inst][1], clock)
    /\ netCalls = 2

\* C16 (as claimed): an expires_at that does not end in "Z", the empty
\* string included, makes get_installation_token raise ValueError and
\* leave the token cache unwritten.
C16_TimestampRejection ==
    [][(EndedAsync /\ out'.got.status = 201
        /\ out'.got.tail # "Z") =>
            (out'.exc = "ValueError" /\ tokens' = tokens)]_vars

\* every cache entry is the (expiry, token) pair of one issuance response
PairsWhole ==
    \A i \in DOMAIN tokens :
        /\ tokens[i][2] \in 1..Len(issued)
        /\ tokens[i][1] = MkTime(issued[tokens[i][2]], tzOffset)

\* C20: a get_installation_token call that was answered returns the token
\* of its own answer and leaves that answer's pair in the cache, whatever
\* another task wrote while it was suspended (the last write wins); and in
\* every state, a cancelled task or not, each cache entry is the expiry and
\* the token of one and the same answer.
C20_RenewalRace ==
    [][/\ (EndedAsync /\ out'.op = "tok" /\ out'.exc = "") =>
            /\ out'.ret = Len(issued')
            /\ Len(issued') = Len(issued) + 1
            /\ tokens'[out'.inst] =
                  <<MkTime(issued'[out'.ret], tzOffset), out'.ret>>
            /\ \A i \in DOMAIN tokens \ {out'.inst} : tokens'[i] = tokens[i]
       /\ (EndedAsync /\ out'.exc # "") => tokens' = tokens
       /\ PairsWhole']_vars

\* C20 witness: two calls for one installation both found no valid token
\* and both sent the POST; the second was answered first, and the first
\* call's answer, the later one, is what the cache holds
C20_Witness ==
    /\ netCalls = 2 /\ Len(issued) = 2
    /\ out.op = "tok" /\ out.call = 1 /\ out.ret = 2
    /\ DOMAIN tokens = {out.inst}
    /\ tokens[out.inst][2] = 2

\* the callers inside their `async with lock_working_dir` block
Holders == {w \in Workers : workers[w].pc \in {"locked", "prepared", "failed"}}

C21_OneSessionPerKey ==
    [][/\ \A k \in DOMAIN handlers :
            k \in DOMAIN handlers' /\ handlers'[k] = handlers[k]
       /\ (Returned /\ out'.op = "api") =>
            /\ <<out'.inst, out'.repo>> \in DOMAIN handlers'
            /\ out'.ret = handlers'[<<out'.inst, out'.repo>>]]_vars

\* a commit_and_push_changes call of this step created a commit
CommitMade == CommitCalled /\ Len(commits') > Len(commits)

\* C22 (as claimed): whatever prepare_branch and commit_and_push_changes
\* calls came before, the commit a call creates becomes the head of local
\* branch branch_name, and a push that succeeds leaves that commit as
\* branch_name on the fork remote.
C22_CommitOnNamedBranch ==
    [][CommitMade =>
        /\ heads'[botOut'.branch] = Len(commits')
        /\ (botOut'.pushed /\ botOut'.exc = "") =>
              forkRefs'[botOut'.branch] = Len(commits')]_vars

\* C22 (amended): the commit a call creates is a child of the head of the
\* checked-out branch and becomes the head of that branch, no other head
\* moves, and the push offers branch_name as it then stands. So when
\* branch_name is the checked-out branch the commit is its new head and a
\* push that succeeds leaves the commit as branch_name on the fork; when
\* another branch is checked out, branch_name keeps its head and the fork's
\* branch_name receives at most that old head, never the new commit.
C22_CommitOnCheckedOutBranch ==
    [][CommitMade =>
        LET c == Len(commits')
            b == botOut'.branch
        IN  /\ c = Len(commits) + 1
            /\ commits'[c].parent = heads[active]
            /\ heads' = [heads EXCEPT ![active] = c]
            /\ \A x \in Branches \ {b} : forkRefs'[x] = forkRefs[x]
            /\ active = b =>
                 /\ forkRefs'[b] \in {forkRefs[b], c}
                 /\ (botOut'.ok /\ ~gitDryRun) => forkRefs'[b] = c
            /\ active # b =>
                 /\ heads'[b] = heads[b]
                 /\ forkRefs'[b] \in {forkRefs[b], heads[b]}
                 /\ forkRefs'[b] # c]_vars

\* C22 witness: prepare_branch("bump") checked the branch out, and the
\* commit_and_push_changes call for "bump" that followed put its commit on
\* the local branch and on the fork
C22_Witness ==
    /\ botOut.op = "commit_and_push_changes" /\ botOut.branch = "bump"
    /\ active = "bump"
    /\ botOut.ok /\ botOut.pushed
    /\ Len(commits) > Len(InitialCommits)
    /\ heads["bump"] = Len(commits)
    /\ forkRefs["bump"] = Len(commits)

\* C23 (as claimed): without dry_run, when commit_and_push_changes returns
\* without raising, every commit that earlier calls created and that lies
\* on local branch_name is on branch_name of the fork remote as well.
C23_NoCommitLeftUnpushed ==
    [][(CommitCalled /\ ~gitDryRun /\ botOut'.exc = "") =>
        \A k \in (Len(InitialCommits) + 1)..Len(commits) :
            IsAncestor(commits', k, heads'[botOut'.branch]) =>
                IsAncestor(commits', k, forkRefs'[botOut'.branch])]_vars

====
